---- MODULE Spec2Model ----
(***************************************************************************)
(* Verification model of the trading-server execution core:                *)
(*   - Bitmex.place_bulk_orders / place_single_order   (src/bitmex.py)     *)
(*   - Bitmex.cancel_orders                            (src/bitmex.py)     *)
(*   - Bitmex.format_orders, get_orders, get_executions (src/bitmex.py)    *)
(*   - the retrying https session of Bitmex.__init__   (src/bitmex.py)     *)
(*   - required_timeframes             (src/misc testing/model_test.py)    *)
(*   - EMACrossTestingOnly.run                         (src/model.py)      *)
(*   - the OrderRecord built from the adapter's successive responses       *)
(* Each operation has its own specification (SpecSubmit, SpecCancel,       *)
(* SpecTimeframes, SpecFormat, SpecQuery, SpecStatus, SpecRecord, SpecRun, *)
(* SpecSend) over the shared variable tuple.                               *)
(***************************************************************************)
EXTENDS Integers, Sequences, FiniteSets, TLC

VARIABLES
    \* ---- place_bulk_orders ----
    pc,                   \* position inside place_bulk_orders
    orders,               \* the argument `orders`
    requests,             \* requests handed to session.send, in order
    responses,            \* responses of the single MARKET requests
    response,             \* response of the bulk request (None when absent)
    ridx,                 \* index of the classification loop
    order_confirmations,  \* unpacked successful confirmations
    updated_orders,       \* the returned list
    outcome,              \* "none" | "returned" | "raised"
    error,                \* the raised exception, if any
    logged,               \* statuses written to the logger
    \* ---- cancel_orders ----
    cpc,                  \* position inside cancel_orders
    order_ids,            \* the argument `order_ids`
    csent,                \* times the DELETE has been put on the wire
    cresponse,            \* the venue response, as a list of elements
    cidx,                 \* index of the loop over the response
    cancel_confs,         \* the mapping under construction (set of entries)
    coutcome,             \* "none" | "returned" | "raised"
    cresult,              \* "None" | "dict" : what was returned
    cerror,               \* the raised exception, if any
    \* ---- required_timeframes ----
    tpc,                  \* position inside required_timeframes
    original,             \* the list as it was passed in
    timeframes,           \* the list being amended in place
    to_add,               \* derived entries not yet appended
    tidx,                 \* index of the loop over timeframes
    toutcome,             \* "none" | "returned" | "raised"
    \* ---- format_orders ----
    fpc,                  \* position inside format_orders
    forders,              \* the argument `orders`
    formatted,            \* the returned payloads
    foutcome,             \* "none" | "returned" | "raised"
    \* ---- get_orders / get_executions ----
    qpc,                  \* position inside the query
    qop,                  \* "get_orders" | "get_executions"
    qsent,                \* times the GET has been put on the wire
    qresponse,            \* the decoded venue response
    qidx,                 \* index of the loop over the response
    qresult,              \* the list under construction (orders / executions)
    qoutcome,             \* "none" | "returned" | "raised"
    qerror,               \* the raised exception, if any
    \* ---- order record reconciliation ----
    record_status,        \* status of the tracked OrderRecord ("none": no record)
    seen,                 \* canonical statuses the adapter reported, in order
    \* ---- EMACrossTestingOnly.run ----
    rpc,                  \* position inside run
    timeframe_arg,        \* the argument `timeframe`
    features,             \* the zipped (index, open, EMA10, EMA20) rows
    ri,                   \* loop variable i (0-based, as in the code)
    longs,                \* times of the long crosses found
    shorts,               \* times of the short crosses found
    signal,               \* the returned SignalEvent, or NoSignal
    routcome,             \* "none" | "returned" | "raised" | "exit"
    rerror,               \* the raised exception, if any
    \* ---- session.send through the retrying HTTPAdapter ----
    spc,                  \* position inside the transport
    attempts,             \* statuses the venue answered, one per attempt
    retries_left,         \* Retry.total still available
    soutcome,             \* "none" | "response" | "raised"
    sresult               \* status of the response handed to the caller

varsSubmit == <<pc, orders, requests, responses, response, ridx,
                order_confirmations, updated_orders, outcome, error, logged>>
varsCancel == <<cpc, order_ids, csent, cresponse, cidx, cancel_confs,
                coutcome, cresult, cerror>>
varsTF     == <<tpc, original, timeframes, to_add, tidx, toutcome>>
varsFormat == <<fpc, forders, formatted, foutcome>>
varsQuery  == <<qpc, qop, qsent, qresponse, qidx, qresult, qoutcome, qerror>>
varsRecord == <<record_status, seen>>
varsRun    == <<rpc, timeframe_arg, features, ri, longs, shorts, signal,
                routcome, rerror>>
varsSend   == <<spc, attempts, retries_left, soutcome, sresult>>
varsMore   == <<varsFormat, varsQuery, varsRecord, varsRun, varsSend>>
vars       == <<varsSubmit, varsCancel, varsTF, varsMore>>

(***************************************************************************)
(* Bounds                                                                  *)
(***************************************************************************)
MaxOrders == 3      \* longest list handed to place_bulk_orders
MaxCancel == 2      \* longest list of ids handed to cancel_orders
MaxLen    == 3      \* longest list handed to required_timeframes
MaxFormat == 2      \* longest list handed to format_orders
MaxQuery  == 2      \* most rows in a get_orders / get_executions response
MaxResponses == 3   \* most responses processed for one order_id
MaxBars   == 4      \* most bars in the window handed to run

(***************************************************************************)
(* Generic helpers                                                         *)
(***************************************************************************)
InSeq(x, s) == \E i \in 1..Len(s) : s[i] = x

(***************************************************************************)
(* The https session every request goes through:                           *)
(* Retry(total=5, backoff_factor=0.25, status_forcelist=[502, 503, 504],   *)
(*       method_whitelist=False) mounted on https://.                      *)
(***************************************************************************)
total == 5

status_forcelist == {502, 503, 504}

\* Statuses urllib3 retries when the response carries a Retry-After header
\* (Retry.RETRY_AFTER_STATUS_CODES; respect_retry_after_header is left at
\* its default, True).
RETRY_AFTER_STATUS_CODES == {413, 429, 503}

NoResponse == 0     \* the attempt ended in a connection or read error

\* Retry.is_retry with `left` retries remaining; every method is retried
\* (method_whitelist=False).
is_retry(status_code, has_retry_after, left) ==
    \/ status_code \in status_forcelist
    \/ (left # 0 /\ has_retry_after /\ status_code \in RETRY_AFTER_STATUS_CODES)

\* What one transmission ends in: the venue's response with its status and
\* whether it carries a Retry-After header (status NoResponse: none came).
Answer(status_code, retry_after, body) ==
    [status_code |-> status_code, retry_after |-> retry_after,
     response |-> body]

\* What session.send does with the answer to one transmission while `left`
\* of the `total` retries remain: it puts the request on the wire again
\* (after the backoff sleep), raises because the retries are used up
\* (requests.exceptions.RetryError / ConnectionError), or hands the response
\* to the caller.
urlopen(a, left) ==
    IF a.status_code = NoResponse \/ is_retry(a.status_code, a.retry_after, left)
    THEN IF left = 0 THEN "raise" ELSE "retry"
    ELSE "return"

\* The retries remaining once the request has been put on the wire `sent`
\* times.
Left(sent) == total - (sent - 1)

(***************************************************************************)
(* place_bulk_orders                                                       *)
(***************************************************************************)
OrderTypes == {"MARKET", "LIMIT", "STOP"}

\* HTTP statuses the venue answers a transmission with: success, 400
\* (malformed payload), 401 and 404 (both ends of the fatal range), 429 (rate
\* limit), 503 (overload).
StatusCodes == {200, 400, 401, 404, 429, 503}

\* ordStatus strings the venue reports; "Expired" is outside the known four.
VenueOrdStatuses == {"Filled", "Canceled", "New", "PartiallyFilled", "Expired"}

\* A clOrdID that belongs to no order of the call.
ForeignId == 99

\* The venue-assigned orderID of an accepted order.
VenueId(clOrdID) == 100 + clOrdID

\* Order intents: client-assigned order ids are unique within a list; the ids
\* are given in ascending or descending order of position.
OrderLists ==
    UNION { { [i \in 1..n |-> [order_id   |-> IF asc THEN i ELSE n + 1 - i,
                               order_type |-> ty[i],
                               symbol     |-> "XBTUSD",
                               direction  |-> "LONG",
                               size       |-> 100,
                               price      |-> 100000,
                               metatype   |-> "ENTRY"]] :
                ty \in [1..n -> OrderTypes], asc \in BOOLEAN }
            : n \in 0..MaxOrders }

NoError == [kind |-> "none", status_code |-> 0, text |-> ""]

\* The absent batch response: `response = None`.
NoneResponse == [isNone |-> TRUE, status_code |-> 0, isList |-> FALSE, json |-> <<>>]

\* m_o = [o for o in orders if o['order_type'] == "MARKET"]
m_o(os) == SelectSeq(os, LAMBDA o : o.order_type = "MARKET")

\* nm_o = [o for o in orders if o not in m_o]
nm_o(os) == SelectSeq(os, LAMBDA o : ~InSeq(o, m_o(os)))

\* Prices and sizes are counted in tenths of a quote unit. A payload field
\* that is None is written NoValue (numbers) or "None" (strings).
NoValue == 0 - 1

\* self.symbol_min_increment, in tenths: 'XBTUSD': 0.5
symbol_min_increment(symbol) == CASE symbol = "XBTUSD" -> 5

\* Exchange.round_increment(number, symbol): the multiple of the symbol's
\* minimum increment nearest to `number`.
round_increment(number, symbol) ==
    LET inc == symbol_min_increment(symbol)
    IN ((2 * number + inc) \div (2 * inc)) * inc

\* The order types format_orders has a branch for.
FormatTypes == {"LIMIT", "MARKET", "STOP_LIMIT", "STOP"}

\* STOP formatted like a limit order: the price stays, stopPx stays None.
format_order_stopAsLimit(o) ==
    LET price == round_increment(o.price, o.symbol)
    IN [symbol      |-> o.symbol,
        side        |-> IF o.direction = "LONG" THEN "Buy" ELSE "Sell",
        orderQty    |-> round_increment(o.size, o.symbol),
        price       |-> IF o.order_type = "MARKET" THEN NoValue ELSE price,
        stopPx      |-> NoValue,
        clOrdID     |-> o.order_id,
        ordType     |-> CASE o.order_type = "LIMIT"      -> "Limit"
                          [] o.order_type = "MARKET"     -> "Market"
                          [] o.order_type = "STOP_LIMIT" -> "StopLimit"
                          [] o.order_type = "STOP"       -> "Stop",
        timeInForce |-> IF o.order_type = "MARKET"
                        THEN "ImmediateOrCancel" ELSE "GoodTillCancel",
        execInst    |-> "None",
        text        |-> o.metatype]

\* format_orders, one order: the venue payload of an order of a known type.
format_order(o) ==
    LET price == round_increment(o.price, o.symbol)
    IN [symbol      |-> o.symbol,
        side        |-> IF o.direction = "LONG" THEN "Buy" ELSE "Sell",
        orderQty    |-> round_increment(o.size, o.symbol),
        price       |-> IF o.order_type \in {"MARKET", "STOP"}
                        THEN NoValue ELSE price,
        stopPx      |-> IF o.order_type = "STOP" THEN price ELSE NoValue,
        clOrdID     |-> o.order_id,
        ordType     |-> CASE o.order_type = "LIMIT"      -> "Limit"
                          [] o.order_type = "MARKET"     -> "Market"
                          [] o.order_type = "STOP_LIMIT" -> "StopLimit"
                          [] o.order_type = "STOP"       -> "Stop",
        timeInForce |-> IF o.order_type \in {"MARKET", "STOP"}
                        THEN "ImmediateOrCancel" ELSE "GoodTillCancel",
        execInst    |-> "None",
        text        |-> o.metatype]

format_orders(os) == [i \in 1..Len(os) |-> format_order(os[i])]

\* What the venue may answer to a request carrying `payload` (a sequence of
\* formatted orders): any status; on 200 one confirmation per order, each with
\* some ordStatus, echoing the clOrdID (or, for a single request, possibly
\* carrying a clOrdID unknown to the caller).
Confirmation(cl, st) == [clOrdID |-> cl, orderID |-> VenueId(cl), ordStatus |-> st]

VenueResponses(payload, isBulk) ==
    { [isNone |-> FALSE, status_code |-> s, isList |-> isBulk, json |-> <<>>] :
        s \in StatusCodes \ {200} }
    \cup
    { [isNone |-> FALSE, status_code |-> 200, isList |-> isBulk,
       json |-> [i \in 1..Len(payload) |-> Confirmation(payload[i].clOrdID, st[i])]] :
        st \in [1..Len(payload) -> VenueOrdStatuses] }
    \cup
    (IF isBulk THEN {}
     ELSE { [isNone |-> FALSE, status_code |-> 200, isList |-> FALSE,
             json |-> <<Confirmation(ForeignId, "New")>>] })

\* The answers to one transmission of a POST carrying `payload`: a venue
\* response, with or without a Retry-After header, or none.
PostAnswers(payload, isBulk) ==
    {Answer(r.status_code, FALSE, r) : r \in VenueResponses(payload, isBulk)}
    \cup {Answer(r.status_code, TRUE, r) :
            r \in {x \in VenueResponses(payload, isBulk) :
                     x.status_code \in {429, 503}}}
    \cup {Answer(NoResponse, FALSE, NoneResponse)}

\* The error session.send raises when the answer `a` used up the retries.
SendError(a) ==
    [kind |-> IF a.status_code = NoResponse
              THEN "ConnectionError" ELSE "RetryError",
     status_code |-> a.status_code, text |-> ""]

Init ==
    /\ pc = "idle" /\ orders = <<>> /\ requests = <<>> /\ responses = <<>>
    /\ response = NoneResponse /\ ridx = 1
    /\ order_confirmations = <<>> /\ updated_orders = <<>>
    /\ outcome = "none" /\ error = NoError /\ logged = <<>>
    /\ cpc = "idle" /\ order_ids = [isNone |-> FALSE, ids |-> <<>>] /\ csent = 0 /\ cresponse = <<>>
    /\ cidx = 1 /\ cancel_confs = {} /\ coutcome = "none"
    /\ cresult = "none" /\ cerror = NoError
    /\ tpc = "idle" /\ original = <<>> /\ timeframes = <<>> /\ to_add = <<>>
    /\ tidx = 1 /\ toutcome = "none"
    /\ fpc = "idle" /\ forders = <<>> /\ formatted = <<>> /\ foutcome = "none"
    /\ qpc = "idle" /\ qop = "none" /\ qsent = 0 /\ qresponse = <<>> /\ qidx = 1
    /\ qresult = <<>> /\ qoutcome = "none" /\ qerror = NoError
    /\ record_status = "none" /\ seen = <<>>
    /\ rpc = "idle" /\ timeframe_arg = "" /\ features = <<>> /\ ri = 0
    /\ longs = <<>> /\ shorts = <<>> /\ signal = "none"
    /\ routcome = "none" /\ rerror = ""
    /\ spc = "idle" /\ attempts = <<>> /\ retries_left = 0
    /\ soutcome = "none" /\ sresult = 0

\* place_bulk_orders(orders) is entered.
PlaceBulkOrders ==
    /\ pc = "idle"
    /\ \E os \in OrderLists : orders' = os
    /\ pc' = "market"
    /\ UNCHANGED <<requests, responses, response, ridx, order_confirmations,
                   updated_orders, outcome, error, logged>>
    /\ UNCHANGED <<varsCancel, varsTF, varsMore>>

\* place_single_order(o) for the next MARKET order: the POST to /order is
\* put on the wire; the call waits for the answer before anything else is
\* sent. The request is recorded with the number of times it has been put on
\* the wire so far.
place_single_order ==
    /\ pc = "market"
    /\ Len(responses) < Len(m_o(orders))
    /\ LET o == m_o(orders)[Len(responses) + 1]
       IN requests' = Append(requests,
              [url |-> "/order", payload |-> format_orders(<<o>>),
               transmissions |-> 1])
    /\ pc' = "single"
    /\ UNCHANGED <<orders, responses, response, ridx, order_confirmations,
                   updated_orders, outcome, error, logged>>
    /\ UNCHANGED <<varsCancel, varsTF, varsMore>>

\* The non-market orders go out in one POST to /order/bulk, if there are any;
\* otherwise `response` stays None.
SubmitBatch ==
    /\ pc = "market"
    /\ Len(responses) = Len(m_o(orders))
    /\ IF nm_o(orders) # <<>>
       THEN /\ requests' = Append(requests,
                   [url |-> "/order/bulk",
                    payload |-> format_orders(nm_o(orders)),
                    transmissions |-> 1])
            /\ pc' = "bulk"
            /\ UNCHANGED response
       ELSE /\ response' = NoneResponse
            /\ pc' = "classify"
            /\ UNCHANGED requests
    /\ ridx' = 1
    /\ UNCHANGED <<orders, responses, order_confirmations, updated_orders,
                   outcome, error, logged>>
    /\ UNCHANGED <<varsCancel, varsTF, varsMore>>

\* The venue answers the transmission the call is waiting on, inside
\* session.send: the POST goes on the wire once more, or the retries are
\* used up and the error ends place_bulk_orders, or the response is handed
\* back (appended to `responses` for a single request, stored in `response`
\* for the bulk request).
PostAnswered ==
    /\ pc \in {"single", "bulk"}
    /\ LET k    == Len(requests)
           sent == requests[k].transmissions
       IN \E a \in PostAnswers(requests[k].payload, pc = "bulk") :
             CASE urlopen(a, Left(sent)) = "retry" ->
                    /\ requests' = [requests EXCEPT ![k].transmissions = sent + 1]
                    /\ UNCHANGED <<pc, responses, response, outcome, error>>
               [] urlopen(a, Left(sent)) = "raise" ->
                    /\ outcome' = "raised"
                    /\ error' = SendError(a)
                    /\ pc' = "done"
                    /\ UNCHANGED <<requests, responses, response>>
               [] urlopen(a, Left(sent)) = "return" ->
                    /\ IF pc = "single"
                       THEN /\ responses' = Append(responses, a.response)
                            /\ pc' = "market"
                            /\ UNCHANGED response
                       ELSE /\ response' = a.response
                            /\ pc' = "classify"
                            /\ UNCHANGED responses
                    /\ UNCHANGED <<requests, outcome, error>>
    /\ UNCHANGED <<orders, ridx, order_confirmations, updated_orders, logged>>
    /\ UNCHANGED <<varsCancel, varsTF, varsMore>>

\* The ordStatus strings the if-chain has a branch for.
KnownOrdStatus(s) == s \in {"Filled", "Canceled", "New", "PartiallyFilled"}

\* The if-chain with PartiallyFilled reported as NEW.
fill_partialAsNew(s) ==
    CASE s = "Filled"          -> "FILLED"
      [] s = "Canceled"        -> "CANCELLED"
      [] s = "New"             -> "NEW"
      [] s = "PartiallyFilled" -> "NEW"

\* The canonical status the if-chain assigns to `fill`.
fill(s) ==
    CASE s = "Filled"          -> "FILLED"
      [] s = "Canceled"        -> "CANCELLED"
      [] s = "New"             -> "NEW"
      [] s = "PartiallyFilled" -> "PARTIAL"

\* The fatal range cut short by one (401..403).
IsFatalStatus_to403(s) == 401 <= s /\ s < 404

\* elif 401 <= r.status_code <= 404
IsFatalStatus(s) == 401 <= s /\ s <= 404

\* One iteration of `for r in responses + [response]`.
Classify ==
    /\ pc = "classify"
    /\ ridx <= Len(responses) + 1
    /\ LET r == (responses \o <<response>>)[ridx]
       IN IF r.isNone
          THEN \* None has no attribute status_code.
               /\ outcome' = "raised"
               /\ error' = [kind |-> "AttributeError", status_code |-> 0,
                            text |-> "status_code"]
               /\ pc' = "done"
               /\ UNCHANGED <<ridx, order_confirmations, logged>>
          ELSE IF r.status_code = 200
          THEN /\ order_confirmations' = order_confirmations \o r.json
               /\ ridx' = ridx + 1
               /\ UNCHANGED <<pc, outcome, error, logged>>
          ELSE IF IsFatalStatus(r.status_code)
          THEN /\ outcome' = "raised"
               /\ error' = [kind |-> "StatusException",
                            status_code |-> r.status_code, text |-> ""]
               /\ pc' = "done"
               /\ UNCHANGED <<ridx, order_confirmations, logged>>
          ELSE \* elif r.status_code == 503 / else: logged only.
               /\ logged' = Append(logged, r.status_code)
               /\ ridx' = ridx + 1
               /\ UNCHANGED <<pc, outcome, error, order_confirmations>>
    /\ UNCHANGED <<orders, requests, responses, response, updated_orders>>
    /\ UNCHANGED <<varsCancel, varsTF, varsMore>>

\* The pairing with the order_id test dropped: every order is paired with
\* every confirmation.
RECURSIVE MatchesOf_noIdTest(_, _)
MatchesOf_noIdTest(confs, os) ==
    IF confs = <<>> THEN <<>>
    ELSE [i \in 1..Len(os) |-> [res |-> Head(confs), order |-> os[i]]]
         \o MatchesOf_noIdTest(Tail(confs), os)

\* The (confirmation, order) pairs with equal ids, in the order of the nested
\* loops `for res in order_confirmations: for order in orders`.
RECURSIVE MatchesOf(_, _)
MatchesOf(confs, os) ==
    IF confs = <<>> THEN <<>>
    ELSE LET res == Head(confs)
             hit == SelectSeq(os, LAMBDA o : o.order_id = res.clOrdID)
         IN [i \in 1..Len(hit) |-> [res |-> res, order |-> hit[i]]]
            \o MatchesOf(Tail(confs), os)

NewRecord(m) ==
    [order_id   |-> m.order.order_id,
     order_type |-> m.order.order_type,
     venue_id   |-> m.res.orderID,
     status     |-> fill(m.res.ordStatus)]

\* The loops that build updated_orders, then `return updated_orders`.
Convert ==
    /\ pc = "classify"
    /\ ridx > Len(responses) + 1
    /\ LET ms  == MatchesOf(order_confirmations, orders)
           bad == SelectSeq(ms, LAMBDA m : ~KnownOrdStatus(m.res.ordStatus))
       IN IF bad # <<>>
          THEN /\ outcome' = "raised"
               /\ error' = [kind |-> "OrdStatusException", status_code |-> 0,
                            text |-> bad[1].res.ordStatus]
               /\ UNCHANGED updated_orders
          ELSE /\ outcome' = "returned"
               /\ updated_orders' = [i \in 1..Len(ms) |-> NewRecord(ms[i])]
               /\ UNCHANGED error
    /\ pc' = "done"
    /\ UNCHANGED <<orders, requests, responses, response, ridx,
                   order_confirmations, logged>>
    /\ UNCHANGED <<varsCancel, varsTF, varsMore>>

NextSubmit == PlaceBulkOrders \/ place_single_order \/ SubmitBatch
                \/ PostAnswered \/ Classify \/ Convert

SpecSubmit == Init /\ [][NextSubmit]_vars

(***************************************************************************)
(* format_orders                                                           *)
(***************************************************************************)
\* Order intents handed to format_orders: every order type that has a branch
\* and one that has none, prices on and off the minimum increment.
FormatInputs ==
    UNION { [1..n -> [order_id   : {1},
                      order_type : FormatTypes \cup {"TRAILING_STOP"},
                      symbol     : {"XBTUSD"},
                      direction  : {"LONG", "SHORT"},
                      size       : {100},
                      price      : {100000, 100002, 100003},
                      metatype   : {"ENTRY"}]]
            : n \in 0..MaxFormat }

\* format_orders(orders): the payloads in input order, or
\* `raise Exception("Incorrect order type specified.")` at the first order of
\* an unknown type.
FormatOrders ==
    /\ fpc = "idle"
    /\ \E os \in FormatInputs :
         /\ forders' = os
         /\ IF \E i \in 1..Len(os) : os[i].order_type \notin FormatTypes
            THEN /\ foutcome' = "raised"
                 /\ UNCHANGED formatted
            ELSE /\ foutcome' = "returned"
                 /\ formatted' = format_orders(os)
    /\ fpc' = "done"
    /\ UNCHANGED <<varsSubmit, varsCancel, varsTF, varsQuery, varsRecord,
                   varsRun, varsSend>>

NextFormat == FormatOrders

SpecFormat == Init /\ [][NextFormat]_vars

(***************************************************************************)
(* get_orders and get_executions                                           *)
(***************************************************************************)
\* The `text` annotation of a venue order: missing, null, or a string, held
\* as the list of its lines (the pieces between "\n"; "" is <<"">>).
NoText   == [kind |-> "absent", lines |-> <<>>]
NullText == [kind |-> "null", lines |-> <<>>]
Text(ls) == [kind |-> "str", lines |-> ls]

Texts ==
    {NoText, NullText, Text(<<"">>), Text(<<"ENTRY">>), Text(<<"STOP">>),
     Text(<<"Submitted via API.">>),
     Text(<<"Submitted via API.", "TAKE_PROFIT">>),
     Text(<<"note", "other", "ENTRY">>)}

MetatypeLabels == {"ENTRY", "STOP", "TAKE_PROFIT", "FINAL_TAKE_PROFIT"}

\* How `"\n" in res['text']` ends: KeyError without the key, TypeError on
\* None, otherwise the test is evaluated.
TextFails(text) ==
    IF text.kind = "absent" THEN "KeyError"
    ELSE IF text.kind = "null" THEN "TypeError"
    ELSE "no"

\* The metatype of a string annotation ("None": no metatype).
metatype(text) ==
    IF Len(text.lines) > 1 THEN text.lines[2]
    ELSE IF text.lines[1] \in MetatypeLabels THEN text.lines[1]
    ELSE "None"

KnownOrdType(t) == t \in {"Limit", "Market", "StopLimit", "Stop"}

order_type(t) ==
    CASE t = "Limit"     -> "LIMIT"
      [] t = "Market"    -> "MARKET"
      [] t = "StopLimit" -> "STOP_LIMIT"
      [] t = "Stop"      -> "STOP"

\* One venue order / execution row; orderID is filled in by position.
Row(cl, side, st, ot, text, liq) ==
    [clOrdID |-> cl, orderID |-> 0, side |-> side, ordStatus |-> st,
     ordType |-> ot, text |-> text, lastLiquidityInd |-> liq,
     avgPx |-> 100000, execComm |-> 200000]

\* The rows the venue may return to GET /order: every ordStatus with a good
\* and with a null annotation, every ordType, every annotation, a sell, and a
\* row without clOrdID.
OrderRows ==
    {Row(1, "Buy", st, "Limit", tx, "") :
        st \in VenueOrdStatuses, tx \in {Text(<<"ENTRY">>), NullText}}
    \cup {Row(1, "Buy", "New", ot, Text(<<"ENTRY">>), "") :
            ot \in {"Limit", "Market", "StopLimit", "Stop", "Pegged"}}
    \cup {Row(1, "Buy", "Filled", "Limit", tx, "") : tx \in Texts}
    \cup {Row(1, "Sell", "PartiallyFilled", "Stop", Text(<<"STOP">>), ""),
          Row(0, "Buy", "Expired", "Pegged", NullText, "")}

\* The rows the venue may return to GET /execution/tradeHistory.
ExecutionRows ==
    {Row(1, "Buy", st, ot, NoText, "RemovedLiquidity") :
        st \in VenueOrdStatuses, ot \in {"Limit", "Market", "Pegged"}}
    \cup {Row(1, "Sell", "Filled", ot, NoText, "AddedLiquidity") :
            ot \in {"StopLimit", "Stop"}}

Numbered(rows) == [k \in 1..Len(rows) |-> [rows[k] EXCEPT !.orderID = 100 + k]]

QueryResponses(rowset) ==
    UNION { {Numbered(rows) : rows \in [1..n -> rowset]} : n \in 0..MaxQuery }

\* The answers to one transmission of a GET: a list of rows, an overload
\* answer, or none.
GetAnswers(rowset) ==
    {Answer(200, FALSE, rs) : rs \in QueryResponses(rowset)}
    \cup {Answer(503, FALSE, <<>>), Answer(NoResponse, FALSE, <<>>)}

\* get_orders(...) is entered and the GET /order request put on the wire.
GetOrders ==
    /\ qpc = "idle"
    /\ qop' = "get_orders"
    /\ qsent' = 1
    /\ qpc' = "send"
    /\ UNCHANGED <<qresponse, qidx, qresult, qoutcome, qerror>>
    /\ UNCHANGED <<varsSubmit, varsCancel, varsTF, varsFormat, varsRecord,
                   varsRun, varsSend>>

\* get_executions(...) is entered and the GET /execution/tradeHistory
\* request put on the wire.
GetExecutions ==
    /\ qpc = "idle"
    /\ qop' = "get_executions"
    /\ qsent' = 1
    /\ qpc' = "send"
    /\ UNCHANGED <<qresponse, qidx, qresult, qoutcome, qerror>>
    /\ UNCHANGED <<varsSubmit, varsCancel, varsTF, varsFormat, varsRecord,
                   varsRun, varsSend>>

\* The venue answers the transmission of the GET the query is waiting on:
\* the request goes on the wire once more, or the retries are used up and
\* the error ends the query, or the response is decoded.
GetAnswered ==
    /\ qpc = "send"
    /\ \E a \in GetAnswers(IF qop = "get_orders"
                           THEN OrderRows ELSE ExecutionRows) :
          CASE urlopen(a, Left(qsent)) = "retry" ->
                 /\ qsent' = qsent + 1
                 /\ UNCHANGED <<qpc, qresponse, qoutcome, qerror>>
            [] urlopen(a, Left(qsent)) = "raise" ->
                 /\ qoutcome' = "raised"
                 /\ qerror' = SendError(a)
                 /\ qpc' = "done"
                 /\ UNCHANGED <<qsent, qresponse>>
            [] urlopen(a, Left(qsent)) = "return" ->
                 /\ qresponse' = a.response
                 /\ qpc' = "loop"
                 /\ UNCHANGED <<qsent, qoutcome, qerror>>
    /\ qidx' = 1
    /\ UNCHANGED <<qop, qresult>>
    /\ UNCHANGED <<varsSubmit, varsCancel, varsTF, varsFormat, varsRecord,
                   varsRun, varsSend>>

QueryRaise(kind, text) ==
    /\ qoutcome' = "raised"
    /\ qerror' = [kind |-> kind, status_code |-> 0, text |-> text]
    /\ qpc' = "done"
    /\ UNCHANGED <<qidx, qresult>>

\* One iteration of `for res in response` of get_orders.
GetOrdersRow ==
    /\ qpc = "loop" /\ qop = "get_orders"
    /\ qidx <= Len(qresponse)
    /\ LET res == qresponse[qidx]
       IN IF res.clOrdID = 0
          THEN \* `if res['clOrdID']:` is false, the row is skipped.
               /\ qidx' = qidx + 1
               /\ UNCHANGED <<qpc, qresult, qoutcome, qerror>>
          ELSE IF ~KnownOrdStatus(res.ordStatus)
          THEN QueryRaise("Exception", res.ordStatus)
          ELSE IF ~KnownOrdType(res.ordType)
          THEN QueryRaise("Exception", res.ordType)
          ELSE IF TextFails(res.text) # "no"
          THEN QueryRaise(TextFails(res.text), "text")
          ELSE /\ qresult' = Append(qresult,
                      [order_id   |-> res.clOrdID,
                       venue_id   |-> res.orderID,
                       direction  |-> IF res.side = "Buy" THEN "LONG" ELSE "SHORT",
                       order_type |-> order_type(res.ordType),
                       metatype   |-> metatype(res.text),
                       status     |-> fill(res.ordStatus)])
               /\ qidx' = qidx + 1
               /\ UNCHANGED <<qpc, qoutcome, qerror>>
    /\ UNCHANGED <<qop, qsent, qresponse>>
    /\ UNCHANGED <<varsSubmit, varsCancel, varsTF, varsFormat, varsRecord,
                   varsRun, varsSend>>

\* One iteration of `for res in response` of get_executions.
GetExecutionsRow ==
    /\ qpc = "loop" /\ qop = "get_executions"
    /\ qidx <= Len(qresponse)
    /\ LET res == qresponse[qidx]
       IN IF ~KnownOrdStatus(res.ordStatus)
          THEN QueryRaise("Exception", res.ordStatus)
          ELSE IF ~KnownOrdType(res.ordType)
          THEN QueryRaise("Exception", res.ordType)
          ELSE /\ qresult' = Append(qresult,
                      [order_id   |-> res.clOrdID,
                       venue_id   |-> res.orderID,
                       direction  |-> IF res.side = "Buy" THEN "LONG" ELSE "SHORT",
                       order_type |-> order_type(res.ordType),
                       fee_type   |-> IF res.lastLiquidityInd = "RemovedLiquidity"
                                      THEN "TAKER" ELSE "MAKER",
                       total_fee  |-> res.execComm \div res.avgPx,
                       status     |-> fill(res.ordStatus)])
               /\ qidx' = qidx + 1
               /\ UNCHANGED <<qpc, qoutcome, qerror>>
    /\ UNCHANGED <<qop, qsent, qresponse>>
    /\ UNCHANGED <<varsSubmit, varsCancel, varsTF, varsFormat, varsRecord,
                   varsRun, varsSend>>

\* return orders / return executions
QueryReturn ==
    /\ qpc = "loop"
    /\ qidx > Len(qresponse)
    /\ qoutcome' = "returned"
    /\ qpc' = "done"
    /\ UNCHANGED <<qop, qsent, qresponse, qidx, qresult, qerror>>
    /\ UNCHANGED <<varsSubmit, varsCancel, varsTF, varsFormat, varsRecord,
                   varsRun, varsSend>>

NextQuery == GetOrders \/ GetExecutions \/ GetAnswered \/ GetOrdersRow
               \/ GetExecutionsRow \/ QueryReturn

SpecQuery == Init /\ [][NextQuery]_vars

\* One call of any of the three operations that map ordStatus:
\* place_bulk_orders, get_orders or get_executions.
NextStatus == (qpc = "idle" /\ NextSubmit) \/ (pc = "idle" /\ NextQuery)

SpecStatus == Init /\ [][NextStatus]_vars

(***************************************************************************)
(* cancel_orders                                                           *)
(***************************************************************************)
\* A null entry of the id list (Python None) is written NullId.
NullId == 0

\* The argument of cancel_orders: None itself, or a list: the empty list, the
\* list [None], or a list of distinct venue ids.
CancelArgs ==
    {[isNone |-> TRUE, ids |-> <<>>], [isNone |-> FALSE, ids |-> <<>>],
     [isNone |-> FALSE, ids |-> <<NullId>>]}
    \cup
    UNION { { [isNone |-> FALSE, ids |-> [k \in 1..n |-> VenueId(f[k])]] :
                f \in {g \in [1..n -> 1..MaxCancel] :
                         \A a, b \in 1..n : g[a] = g[b] => a = b} }
            : n \in 1..MaxCancel }

ErrFilled   == "Unable to cancel order due to existing state: Filled"
ErrCanceled == "Unable to cancel order due to existing state: Canceled"
ErrOther    == "Not Found"

\* The `error` field of a response element: missing, present and null, or an
\* error string.
ErrorFields == {"absent", "null", ErrFilled, ErrCanceled, ErrOther}

\* The element the venue returns for order `id`: the order with its ordType,
\* price, stopPx and ordStatus, and possibly an error field.
CancelElements(id) ==
    { [hasOrdType |-> TRUE, orderID |-> id, clOrdID |-> id - 100,
       ordType |-> ot, price |-> 1000 + id, stopPx |-> 2000 + id,
       errorField |-> ef, ordStatus |-> os] :
        ot \in {"Limit", "Stop"}, ef \in ErrorFields,
        os \in {"Canceled", "New", "Filled"} }

\* A response that is not a list of orders: an error object without ordType.
ErrorObject ==
    [hasOrdType |-> FALSE, orderID |-> NullId, clOrdID |-> NullId,
     ordType |-> "", price |-> 0, stopPx |-> 0,
     errorField |-> ErrOther, ordStatus |-> ""]

\* The decoded body of the DELETE response: a list with one element per id, or
\* a single object.
CancelResponses(ids) ==
    { [isList |-> TRUE, items |-> els] :
        els \in {e \in [1..Len(ids) -> UNION {CancelElements(ids[k]) : k \in 1..Len(ids)}] :
                   \A k \in 1..Len(ids) : e[k].orderID = ids[k]} }
    \cup {[isList |-> FALSE, items |-> <<ErrorObject>>]}

\* cancel_orders(order_ids) is entered: `if order_ids[0] is None: return None`.
CancelOrders ==
    /\ cpc = "idle"
    /\ \E arg \in CancelArgs :
         /\ order_ids' = arg
         /\ IF arg.isNone
            THEN \* None[0]
                 /\ coutcome' = "raised"
                 /\ cerror' = [kind |-> "TypeError", status_code |-> 0,
                               text |-> "'NoneType' object is not subscriptable"]
                 /\ cpc' = "done"
                 /\ UNCHANGED cresult
            ELSE IF arg.ids = <<>>
            THEN \* [][0]
                 /\ coutcome' = "raised"
                 /\ cerror' = [kind |-> "IndexError", status_code |-> 0,
                               text |-> "list index out of range"]
                 /\ cpc' = "done"
                 /\ UNCHANGED cresult
            ELSE IF arg.ids[1] = NullId
            THEN /\ coutcome' = "returned"
                 /\ cresult' = "None"
                 /\ cpc' = "done"
                 /\ UNCHANGED cerror
            ELSE /\ cpc' = "send"
                 /\ UNCHANGED <<coutcome, cresult, cerror>>
    /\ UNCHANGED <<csent, cresponse, cidx, cancel_confs>>
    /\ UNCHANGED <<varsSubmit, varsTF, varsMore>>

\* The answers to one transmission of the DELETE: a body the venue sends
\* (the status is not looked at), an overload answer, or none.
DeleteAnswers(ids) ==
    {Answer(200, FALSE, raw) : raw \in CancelResponses(ids)}
    \cup {Answer(503, FALSE, [isList |-> FALSE, items |-> <<ErrorObject>>]),
          Answer(NoResponse, FALSE, [isList |-> FALSE, items |-> <<>>])}

\* The DELETE request is put on the wire; the call waits for the answer.
CancelSend ==
    /\ cpc = "send"
    /\ csent' = csent + 1
    /\ cpc' = "await"
    /\ UNCHANGED <<order_ids, cresponse, cidx, cancel_confs, coutcome,
                   cresult, cerror>>
    /\ UNCHANGED <<varsSubmit, varsTF, varsMore>>

\* The venue answers the transmission of the DELETE the call is waiting on:
\* the request goes on the wire once more, or the retries are used up and
\* the error ends cancel_orders, or the body is decoded;
\* response = [response] if not isinstance(response, list) else response
DeleteAnswered ==
    /\ cpc = "await"
    /\ \E a \in DeleteAnswers(order_ids.ids) :
          CASE urlopen(a, Left(csent)) = "retry" ->
                 /\ csent' = csent + 1
                 /\ UNCHANGED <<cpc, cresponse, coutcome, cerror>>
            [] urlopen(a, Left(csent)) = "raise" ->
                 /\ coutcome' = "raised"
                 /\ cerror' = SendError(a)
                 /\ cpc' = "done"
                 /\ UNCHANGED <<csent, cresponse>>
            [] urlopen(a, Left(csent)) = "return" ->
                 /\ cresponse' = a.response.items
                 /\ cpc' = "loop"
                 /\ UNCHANGED <<csent, coutcome, cerror>>
    /\ cidx' = 1
    /\ UNCHANGED <<order_ids, cancel_confs, cresult>>
    /\ UNCHANGED <<varsSubmit, varsTF, varsMore>>

\* The already-Filled message left without a branch of its own.
ElementCase_noFilledBranch(i) ==
    IF ~i.hasOrdType THEN "format"
    ELSE IF i.errorField # "absent"
    THEN IF i.errorField # "null"
         THEN IF i.errorField = ErrCanceled THEN "CANCELLED"
              ELSE "unhandled"
         ELSE "skip"
    ELSE IF i.ordStatus = "Canceled" THEN "CANCELLED"
         ELSE "unhandled"

\* Unknown error strings and unexpected statuses swallowed instead of raised.
ElementCase_swallowUnknown(i) ==
    IF ~i.hasOrdType THEN "format"
    ELSE IF i.errorField # "absent"
    THEN IF i.errorField # "null"
         THEN IF i.errorField = ErrFilled THEN "FILLED"
              ELSE IF i.errorField = ErrCanceled THEN "CANCELLED"
              ELSE "skip"
         ELSE "skip"
    ELSE IF i.ordStatus = "Canceled" THEN "CANCELLED"
         ELSE "skip"

\* What one iteration of `for i in response` does with element i:
\* "FILLED" / "CANCELLED": an entry with that status is stored;
\* "skip": nothing is stored; "format" / "unhandled": an exception is raised.
ElementCase(i) ==
    IF ~i.hasOrdType THEN "format"
    ELSE IF i.errorField # "absent"
    THEN IF i.errorField # "null"
         THEN IF i.errorField = ErrFilled THEN "FILLED"
              ELSE IF i.errorField = ErrCanceled THEN "CANCELLED"
              ELSE "unhandled"
         ELSE "skip"
    ELSE IF i.ordStatus = "Canceled" THEN "CANCELLED"
         ELSE "unhandled"

CancelConf(i, status) ==
    [venue_id   |-> i.orderID,
     order_id   |-> i.clOrdID,
     status     |-> status,
     order_type |-> i.ordType,
     price      |-> IF i.ordType = "Stop" THEN i.stopPx ELSE i.price]

\* One iteration of `for i in response`.
CancelElement ==
    /\ cpc = "loop"
    /\ cidx <= Len(cresponse)
    /\ LET i == cresponse[cidx]
           c == ElementCase(i)
       IN IF c \in {"FILLED", "CANCELLED"}
          THEN /\ cancel_confs' =
                     {e \in cancel_confs : e.venue_id # i.orderID}
                         \cup {CancelConf(i, c)}
               /\ cidx' = cidx + 1
               /\ UNCHANGED <<cpc, coutcome, cerror>>
          ELSE IF c = "skip"
          THEN /\ cidx' = cidx + 1
               /\ UNCHANGED <<cpc, coutcome, cerror, cancel_confs>>
          ELSE /\ coutcome' = "raised"
               /\ cerror' =
                     IF c = "format"
                     THEN [kind |-> "Exception", status_code |-> 0,
                           text |-> "Unexpected response format: "]
                     ELSE [kind |-> "Exception", status_code |-> 0,
                           text |-> "Unhandled cancellation message case: "]
               /\ cpc' = "done"
               /\ UNCHANGED <<cidx, cancel_confs>>
    /\ UNCHANGED <<order_ids, csent, cresponse, cresult>>
    /\ UNCHANGED <<varsSubmit, varsTF, varsMore>>

\* return cancel_confs
CancelReturn ==
    /\ cpc = "loop"
    /\ cidx > Len(cresponse)
    /\ coutcome' = "returned"
    /\ cresult' = "dict"
    /\ cpc' = "done"
    /\ UNCHANGED <<order_ids, csent, cresponse, cidx, cancel_confs, cerror>>
    /\ UNCHANGED <<varsSubmit, varsTF, varsMore>>

NextCancel == CancelOrders \/ CancelSend \/ DeleteAnswered \/ CancelElement
                \/ CancelReturn

SpecCancel == Init /\ [][NextCancel]_vars

(***************************************************************************)
(* The OrderRecord of one order_id over the responses the adapter converts *)
(* for it: the record built from the latest response                       *)
(***************************************************************************)
\* The venue id of the order followed.
RecordId == VenueId(1)

\* What the adapter reports for one response about the order: the canonical
\* status of a submit confirmation or of a get_orders row ("raise" when the
\* if-chain raises), or the status of the cancel confirmation built for its
\* element ("nothing" when the element is passed over or cancel_orders raises).
AdapterStatus(source, ordStatus, element) ==
    IF source \in {"submit", "query"}
    THEN IF KnownOrdStatus(ordStatus) THEN fill(ordStatus) ELSE "raise"
    ELSE IF ElementCase(element) \in {"FILLED", "CANCELLED"}
         THEN CancelConf(element, ElementCase(element)).status
         ELSE "nothing"

\* One more response about the order is converted. Nothing in the adapter
\* keeps the earlier record: the record of the order is the one built from
\* this response, with the status reported in it. A call that raises, or
\* that builds no entry for the order, produces no record.
Processed(source, reported) ==
    /\ Len(seen) < MaxResponses
    /\ seen' = Append(seen, [source |-> source, status |-> reported])
    /\ record_status' =
          IF reported \in {"raise", "nothing"} THEN record_status
          ELSE reported
    /\ UNCHANGED <<varsSubmit, varsCancel, varsTF, varsFormat, varsQuery,
                   varsRun, varsSend>>

\* place_bulk_orders converts the submit confirmation of the order.
RecordFromSubmit ==
    /\ record_status = "none"
    /\ \E st \in VenueOrdStatuses :
          Processed("submit", AdapterStatus("submit", st, ErrorObject))

\* get_orders converts a later row of the order.
RecordFromQuery ==
    /\ record_status # "none"
    /\ \E st \in VenueOrdStatuses :
          Processed("query", AdapterStatus("query", st, ErrorObject))

\* cancel_orders converts the element of the order.
RecordFromCancel ==
    /\ record_status # "none"
    /\ \E el \in CancelElements(RecordId) :
          Processed("cancel", AdapterStatus("cancel", "", el))

NextRecord == RecordFromSubmit \/ RecordFromQuery \/ RecordFromCancel

SpecRecord == Init /\ [][NextRecord]_vars

(***************************************************************************)
(* required_timeframes                                                     *)
(* A timeframe string is a sequence of its characters.                     *)
(***************************************************************************)
DigitChars == <<"0", "1", "2", "3", "4", "5", "6", "7", "8", "9">>

IsDigit(c) == InSeq(c, DigitChars)

DigitVal(c) == (CHOOSE k \in 1..10 : DigitChars[k] = c) - 1

tf1Min  == <<"1", "M", "i", "n">>
tf3Min  == <<"3", "M", "i", "n">>
tf5Min  == <<"5", "M", "i", "n">>
tf15Min == <<"1", "5", "M", "i", "n">>
tf30Min == <<"3", "0", "M", "i", "n">>
tf1H    == <<"1", "H">>
tf2H    == <<"2", "H">>
tf4H    == <<"4", "H">>
tf12H   == <<"1", "2", "H">>
tf16H   == <<"1", "6", "H">>
tf1D    == <<"1", "D">>
tfH     == <<"H">>

\* The timeframe strings lists are drawn from ("H" has no numeric prefix).
TimeframeStrings ==
    {tf1Min, tf3Min, tf5Min, tf15Min, tf30Min, tf1H, tf2H, tf4H, tf12H,
     tf16H, tf1D, tfH}

\* Lists of distinct operating timeframes.
TimeframeLists ==
    UNION { {l \in [1..n -> TimeframeStrings] :
                \A a, b \in 1..n : l[a] = l[b] => a = b}
            : n \in 0..MaxLen }

\* ''.join(filter(str.isdigit, timeframe))
DigitsOf(tf) == SelectSeq(tf, IsDigit)

\* int(s) of a non-empty string of digits.
RECURSIVE IntOf(_)
IntOf(ds) ==
    IF ds = <<>> THEN 0
    ELSE 10 * IntOf(SubSeq(ds, 1, Len(ds) - 1)) + DigitVal(ds[Len(ds)])

\* str(n) of a natural number.
RECURSIVE StrOf(_)
StrOf(n) ==
    IF n < 10 THEN <<DigitChars[n + 1]>>
    ELSE StrOf(n \div 10) \o <<DigitChars[(n % 10) + 1]>>

\* re.findall("[a-zA-Z]+", timeframe)[0]: the first maximal run of letters
\* (the empty sequence stands for "no match").
RECURSIVE LetterRun(_)
LetterRun(s) ==
    IF s = <<>> \/ IsDigit(Head(s)) THEN <<>>
    ELSE <<Head(s)>> \o LetterRun(Tail(s))

RECURSIVE FirstCode(_)
FirstCode(s) ==
    IF s = <<>> THEN <<>>
    ELSE IF IsDigit(Head(s)) THEN FirstCode(Tail(s))
    ELSE LetterRun(s)

\* The fixed rows of the rule table: the trigger of `timeframe`, or <<>> when
\* the timeframe falls to the generic branch.
TableTrigger(timeframe) ==
    IF timeframe = tf1Min THEN tf3Min
    ELSE IF timeframe = tf3Min THEN tf5Min
    ELSE IF timeframe = tf5Min THEN tf15Min
    ELSE IF timeframe \in {tf12H, tf16H} THEN tf1D
    ELSE IF timeframe = tf30Min THEN tf1H
    ELSE <<>>

\* The generic branch fails when int('') or code[0] fails.
GenericFails(timeframe) ==
    DigitsOf(timeframe) = <<>> \/ FirstCode(timeframe) = <<>>

\* The doubling forgotten: str(num) + code[0].
Doubled_notDoubled(timeframe) ==
    StrOf(IntOf(DigitsOf(timeframe))) \o FirstCode(timeframe)

\* str(num * 2) + code[0]
Doubled(timeframe) ==
    StrOf(IntOf(DigitsOf(timeframe)) * 2) \o FirstCode(timeframe)

\* New entries put at the front of to_add instead of its end.
NextToAdd_prepend(timeframe, tfs, add) ==
    IF TableTrigger(timeframe) # <<>>
    THEN IF ~InSeq(TableTrigger(timeframe), tfs)
            /\ ~InSeq(TableTrigger(timeframe), add)
         THEN <<TableTrigger(timeframe)>> \o add
         ELSE add
    ELSE <<Doubled(timeframe)>> \o add

\* to_add after the loop body has run for `timeframe`.
NextToAdd(timeframe, tfs, add) ==
    IF TableTrigger(timeframe) # <<>>
    THEN IF ~InSeq(TableTrigger(timeframe), tfs)
            /\ ~InSeq(TableTrigger(timeframe), add)
         THEN Append(add, TableTrigger(timeframe))
         ELSE add
    ELSE Append(add, Doubled(timeframe))

\* required_timeframes(timeframes) is entered.
RequiredTimeframes ==
    /\ tpc = "idle"
    /\ \E l \in TimeframeLists : original' = l /\ timeframes' = l
    /\ to_add' = <<>>
    /\ tidx' = 1
    /\ tpc' = "loop"
    /\ UNCHANGED toutcome
    /\ UNCHANGED <<varsSubmit, varsCancel, varsMore>>

\* One iteration of `for timeframe in timeframes`.
DeriveOne ==
    /\ tpc = "loop"
    /\ tidx <= Len(timeframes)
    /\ LET timeframe == timeframes[tidx]
       IN IF TableTrigger(timeframe) = <<>> /\ GenericFails(timeframe)
          THEN /\ toutcome' = "raised"
               /\ tpc' = "done"
               /\ UNCHANGED <<to_add, tidx>>
          ELSE /\ to_add' = NextToAdd(timeframe, timeframes, to_add)
               /\ tidx' = tidx + 1
               /\ UNCHANGED <<tpc, toutcome>>
    /\ UNCHANGED <<original, timeframes>>
    /\ UNCHANGED <<varsSubmit, varsCancel, varsMore>>

\* for new_item in to_add: timeframes.append(new_item)
AppendDerived ==
    /\ tpc = "loop"
    /\ tidx > Len(timeframes)
    /\ timeframes' = timeframes \o to_add
    /\ toutcome' = "returned"
    /\ tpc' = "done"
    /\ UNCHANGED <<original, to_add, tidx>>
    /\ UNCHANGED <<varsSubmit, varsCancel, varsMore>>

NextTimeframes == RequiredTimeframes \/ DeriveOne \/ AppendDerived

SpecTimeframes == Init /\ [][NextTimeframes]_vars

(***************************************************************************)
(* EMACrossTestingOnly.run                                                 *)
(* A feature value is a number, None (NoValue) or the float NaN.           *)
(***************************************************************************)
NaN == 0 - 2

operating_timeframes == {"1Min"}

\* One row of zip(index, open, EMA10, EMA20); the index value of row k is k.
Bar(k, fast, slow) == [time |-> k, open |-> 100, fast |-> fast, slow |-> slow]

FeaturePairs ==
    {<<f, s>> : f \in {NoValue, 1, 2}, s \in {NoValue, 1, 2}} \cup {<<NaN, NaN>>}

\* The window built from the feature pairs w, oldest bar first.
Window(w) == [k \in 1..Len(w) |-> Bar(k, w[k][1], w[k][2])]

\* a < b raises TypeError when an operand is None.
CmpFails(a, b) == a = NoValue \/ b = NoValue

\* a < b for operands that are not None: false when one is NaN.
Less(a, b) == a # NaN /\ b # NaN /\ a < b

\* The 1-based position of seq[j] for a Python index j (negative indexes
\* count from the end); outside 1..Len(seq) the access raises IndexError.
PyIndex(seq, j) == IF j >= 0 THEN j + 1 ELSE Len(seq) + j + 1

\* What the loop body does for i (0-based): "skip" (a feature is None),
\* "IndexError" / "TypeError" (raised by the body), "short" / "long" (the
\* bar is appended to shorts / longs), "nocross".
BarCase(fs, i) ==
    LET cur == fs[i + 1]
        k1  == PyIndex(fs, i - 1)
        k2  == PyIndex(fs, i - 2)
    IN IF cur.fast = NoValue \/ cur.slow = NoValue THEN "skip"
       ELSE IF k1 \notin 1..Len(fs) \/ k2 \notin 1..Len(fs) THEN "IndexError"
       ELSE LET p1 == fs[k1]
                p2 == fs[k2]
            IN IF Less(cur.fast, cur.slow)
               THEN IF CmpFails(p1.slow, p1.fast) THEN "TypeError"
                    ELSE IF ~Less(p1.slow, p1.fast) THEN "nocross"
                    ELSE IF CmpFails(p2.slow, p2.fast) THEN "TypeError"
                    ELSE IF Less(p2.slow, p2.fast) THEN "short"
                    ELSE "nocross"
               ELSE IF Less(cur.slow, cur.fast)
               THEN IF CmpFails(p1.slow, p1.fast) THEN "TypeError"
                    ELSE IF ~Less(p1.fast, p1.slow) THEN "nocross"
                    ELSE IF CmpFails(p2.slow, p2.fast) THEN "TypeError"
                    ELSE IF Less(p2.fast, p2.slow) THEN "long"
                    ELSE "nocross"
               ELSE "nocross"

\* run(op_data, req_data, timeframe, symbol, exchange) is entered; on an
\* operating timeframe the feature rows are zipped, otherwise None is
\* returned.
Run ==
    /\ rpc = "idle"
    /\ \E tf \in {"1Min", "5Min"}, n \in 0..MaxBars :
       \E w \in [1..n -> FeaturePairs] :
          /\ timeframe_arg' = tf
          /\ IF tf \in operating_timeframes
             THEN /\ features' = Window(w)
                  /\ rpc' = "loop"
                  /\ UNCHANGED <<signal, routcome>>
             ELSE /\ features' = <<>>
                  /\ rpc' = "done"
                  /\ routcome' = "returned"
                  /\ signal' = "null"
    /\ ri' = 0 /\ longs' = <<>> /\ shorts' = <<>>
    /\ UNCHANGED rerror
    /\ UNCHANGED <<varsSubmit, varsCancel, varsTF, varsFormat, varsQuery,
                   varsRecord, varsSend>>

\* One iteration of `for i in range(len(op_data[timeframe].index))`.
CheckBar ==
    /\ rpc = "loop"
    /\ ri < Len(features)
    /\ LET c == BarCase(features, ri)
       IN IF c \in {"IndexError", "TypeError"}
          THEN /\ routcome' = "raised"
               /\ rerror' = c
               /\ rpc' = "done"
               /\ UNCHANGED <<ri, longs, shorts>>
          ELSE /\ ri' = ri + 1
               /\ longs' = IF c = "long"
                           THEN Append(longs, features[ri + 1].time) ELSE longs
               /\ shorts' = IF c = "short"
                            THEN Append(shorts, features[ri + 1].time) ELSE shorts
               /\ UNCHANGED <<rpc, routcome, rerror>>
    /\ UNCHANGED <<timeframe_arg, features, signal>>
    /\ UNCHANGED <<varsSubmit, varsCancel, varsTF, varsFormat, varsQuery,
                   varsRecord, varsSend>>

\* The code after the loop: the signal for the current bar, None, or
\* sys.exit(0) from the `except IndexError` handler when the last entry of an
\* empty list is read.
Emit ==
    /\ rpc = "loop"
    /\ ri = Len(features)
    /\ IF longs = <<>> /\ shorts = <<>>
       THEN routcome' = "returned" /\ signal' = "null"
       ELSE IF longs = <<>>
       THEN routcome' = "exit" /\ UNCHANGED signal
       ELSE IF features[Len(features)].time = longs[Len(longs)]
       THEN routcome' = "returned" /\ signal' = "LONG"
       ELSE IF shorts = <<>>
       THEN routcome' = "exit" /\ UNCHANGED signal
       ELSE IF features[Len(features)].time = shorts[Len(shorts)]
       THEN routcome' = "returned" /\ signal' = "SHORT"
       ELSE routcome' = "returned" /\ signal' = "null"
    /\ rpc' = "done"
    /\ UNCHANGED <<timeframe_arg, features, ri, longs, shorts, rerror>>
    /\ UNCHANGED <<varsSubmit, varsCancel, varsTF, varsFormat, varsQuery,
                   varsRecord, varsSend>>

NextRun == Run \/ CheckBar \/ Emit

SpecRun == Init /\ [][NextRun]_vars

(***************************************************************************)
(* session.send through the retrying https adapter, one transmission at   *)
(* a time; the waits between attempts are left out.                        *)
(***************************************************************************)
\* What one transmission can end in: a response of the venue, with or
\* without a Retry-After header, or no response.
AttemptOutcomes ==
    {[status_code |-> s, retry_after |-> FALSE] :
        s \in {NoResponse, 200, 400, 404, 429, 502, 503, 504}}
    \cup {[status_code |-> s, retry_after |-> TRUE] : s \in {429, 503}}

\* self.session.send(request) is called.
Send ==
    /\ spc = "idle"
    /\ spc' = "sending"
    /\ attempts' = <<>>
    /\ retries_left' = total
    /\ UNCHANGED <<soutcome, sresult>>
    /\ UNCHANGED <<varsSubmit, varsCancel, varsTF, varsFormat, varsQuery,
                   varsRecord, varsRun>>

\* The request is transmitted once; the adapter then hands the response to
\* the caller, transmits again, or raises once the retries are used up.
Attempt ==
    /\ spc = "sending"
    /\ \E o \in AttemptOutcomes :
          /\ attempts' = Append(attempts, o)
          /\ IF o.status_code = NoResponse
                \/ is_retry(o.status_code, o.retry_after, retries_left)
             THEN IF retries_left = 0
                  THEN /\ soutcome' = "raised"
                       /\ sresult' = o.status_code
                       /\ spc' = "done"
                       /\ UNCHANGED retries_left
                  ELSE /\ retries_left' = retries_left - 1
                       /\ UNCHANGED <<spc, soutcome, sresult>>
             ELSE /\ soutcome' = "response"
                  /\ sresult' = o.status_code
                  /\ spc' = "done"
                  /\ UNCHANGED retries_left
    /\ UNCHANGED <<varsSubmit, varsCancel, varsTF, varsFormat, varsQuery,
                   varsRecord, varsRun>>

NextSend == Send \/ Attempt

SpecSend == Init /\ [][NextSend]_vars

(***************************************************************************)
(* Properties of place_bulk_orders                                         *)
(***************************************************************************)
\* The statuses 401..404 of the response classification.
InFatalRange(s) == s \in 401..404

InputIds == {orders[i].order_id : i \in 1..Len(orders)}

\* The responses received so far (the absent batch response is not one).
Received == responses \o (IF response.isNone THEN <<>> ELSE <<response>>)

\* session.send raised: the retries of a request were used up.
SendRaised == error.kind \in {"RetryError", "ConnectionError"}

\* The sending part of the call is over.
AllSent == pc \in {"classify", "done"}

\* How many times order id `id` was put on the wire.
RECURSIVE TimesSent(_, _)
TimesSent(id, k) ==
    IF k = 0 THEN 0
    ELSE TimesSent(id, k - 1)
         + (IF \E j \in 1..Len(requests[k].payload) :
                  requests[k].payload[j].clOrdID = id
            THEN requests[k].transmissions ELSE 0)

Mixed == m_o(orders) # <<>> /\ Len(m_o(orders)) < Len(orders)

\* The (request, payload position) pairs that carry order id `id`.
Carriers(id) ==
    {<<k, j>> \in (1..Len(requests)) \X (1..MaxOrders + 1) :
        j <= Len(requests[k].payload) /\ requests[k].payload[j].clOrdID = id}

SingleRequests == {k \in 1..Len(requests) : requests[k].url = "/order"}
BulkRequests   == {k \in 1..Len(requests) : requests[k].url = "/order/bulk"}

\* C1 (as claimed): for a list mixing MARKET and non-MARKET orders, the
\* router sends one single-order request per MARKET order, in input order,
\* then exactly one bulk request carrying all the non-MARKET orders; every
\* input order_id is carried by exactly one request, and at no point of the
\* call has an order_id been put on the wire twice.
C1_OneRequestPerMarketOneBulk ==
    /\ \A id \in InputIds :
          /\ Cardinality(Carriers(id)) <= 1
          /\ TimesSent(id, Len(requests)) <= 1
    /\ (AllSent /\ Mixed) =>
         /\ Cardinality(SingleRequests) = Len(m_o(orders))
         /\ \A k \in 1..Len(m_o(orders)) :
              /\ requests[k].url = "/order"
              /\ Len(requests[k].payload) = 1
              /\ requests[k].payload[1].clOrdID = m_o(orders)[k].order_id
         /\ Cardinality(BulkRequests) = 1
         /\ \A k \in BulkRequests :
              /\ k = Len(requests)
              /\ {requests[k].payload[j].clOrdID : j \in 1..Len(requests[k].payload)}
                   = {orders[i].order_id :
                        i \in {i \in 1..Len(orders) : orders[i].order_type # "MARKET"}}
         /\ \A id \in InputIds : Cardinality(Carriers(id)) = 1

\* The confirmations of every received response with status 200.
RECURSIVE ConfsOf(_)
ConfsOf(rs) ==
    IF rs = <<>> THEN <<>>
    ELSE (IF Head(rs).status_code = 200 THEN Head(rs).json ELSE <<>>)
         \o ConfsOf(Tail(rs))

ConfIdx(id) ==
    {i \in 1..Len(ConfsOf(Received)) : ConfsOf(Received)[i].clOrdID = id}
RecIdx(id) ==
    {i \in 1..Len(updated_orders) : updated_orders[i].order_id = id}

\* C2: when place_bulk_orders returns, the records correspond one to one to
\* the successful confirmations whose clOrdID is an input order_id: per
\* order_id as many records as confirmations, each record carrying the
\* venue-assigned orderID of a confirmation of that order_id, and no record for
\* an order without a successful confirmation.
C2_RecordsMatchConfirmations ==
    (pc = "done" /\ outcome = "returned") =>
        /\ \A i \in 1..Len(updated_orders) :
              updated_orders[i].order_id \in InputIds
        /\ \A id \in InputIds :
              /\ Cardinality(RecIdx(id)) = Cardinality(ConfIdx(id))
              /\ \A i \in RecIdx(id) :
                    \E c \in ConfIdx(id) :
                        updated_orders[i].venue_id = ConfsOf(Received)[c].orderID

\* A mixed call that returns records in an order different from the input,
\* with one order unconfirmed and one confirmation for an unknown clOrdID.
C2_Witness ==
    /\ pc = "done" /\ outcome = "returned"
    /\ Len(orders) = 3 /\ Len(updated_orders) = 1
    /\ orders[1].order_type = "LIMIT"
    /\ updated_orders[1].order_id # orders[1].order_id
    /\ \E i \in 1..Len(order_confirmations) :
           order_confirmations[i].clOrdID = ForeignId

HasFatal == \E i \in 1..Len(Received) : InFatalRange(Received[i].status_code)

\* No confirmed order carries an ordStatus outside the known four.
StatusesKnown ==
    \A i \in 1..Len(ConfsOf(Received)) :
        ConfsOf(Received)[i].clOrdID \in InputIds
            => ConfsOf(Received)[i].ordStatus \in {"Filled", "Canceled", "New", "PartiallyFilled"}

\* C3 (as claimed): with no non-MARKET order in the list, the call completes
\* and returns the records of the confirmed MARKET orders.
C3_AbsentBatchResponseGuarded ==
    (pc = "done" /\ m_o(orders) # <<>> /\ nm_o(orders) = <<>>
       /\ ~SendRaised /\ ~HasFatal /\ StatusesKnown)
    => /\ outcome = "returned"
       /\ \A id \in InputIds : Cardinality(RecIdx(id)) = Cardinality(ConfIdx(id))

\* C4: a received response with a status in 401..404 makes the call end
\* raised with no record returned: the error carries a status of that range,
\* unless a later send of the same call raised first; no response of that
\* range is ever passed over by the loop, and no request is sent again.
C4_FatalStatusRaises ==
    /\ (pc = "classify") =>
          \A i \in 1..(ridx - 1) :
              i <= Len(Received) => ~InFatalRange(Received[i].status_code)
    /\ (pc = "done" /\ HasFatal) =>
          /\ outcome = "raised"
          /\ updated_orders = <<>>
          /\ ~SendRaised =>
                /\ error.kind = "StatusException"
                /\ error.status_code \in 401..404
    /\ \A k1, k2 \in 1..Len(requests) : requests[k1] = requests[k2] => k1 = k2

C4_Witness ==
    /\ pc = "done" /\ outcome = "raised"
    /\ error.kind = "StatusException" /\ error.status_code = 404
    /\ Len(Received) = 2 /\ Received[1].status_code = 200
    /\ Received[2].status_code = 404

Is4xx(s) == 400 <= s /\ s <= 499

\* C5 (as claimed): every 4xx rejection, 400 and 429 included, is raised to
\* the caller and never logged and dropped.
C5_Every4xxFatal ==
    (pc = "done" /\ \E i \in 1..Len(Received) : Is4xx(Received[i].status_code))
    => /\ outcome = "raised"
       /\ \A i \in 1..Len(logged) : ~Is4xx(logged[i])

\* C6 (as claimed): when the venue answers a request of a call that has a
\* bulk request with 503, or with another non-success status outside 401..404,
\* nothing is raised; the call goes on and returns the orders of the
\* successful responses.
C6_OverloadLoggedAndContinues ==
    (/\ pc = "done"
     /\ nm_o(orders) # <<>>
     /\ \/ \E i \in 1..Len(Received) :
              Received[i].status_code # 200 /\ ~InFatalRange(Received[i].status_code)
        \/ (error.kind = "RetryError" /\ error.status_code = 503)
     /\ error.kind # "ConnectionError"
     /\ ~HasFatal /\ StatusesKnown)
    => /\ outcome = "returned"
       /\ \A id \in InputIds : Cardinality(RecIdx(id)) = Cardinality(ConfIdx(id))

(***************************************************************************)
(* Properties of cancel_orders                                             *)
(***************************************************************************)
\* C7 (as claimed): with a null or an empty list of ids cancel_orders sends
\* nothing, raises nothing and returns nothing.
C7_NullOrEmptyIsNoOp ==
    (cpc = "done" /\ (order_ids.isNone \/ order_ids.ids = <<>>))
    => /\ coutcome = "returned"
       /\ cresult = "None"
       /\ csent = 0

ConfsFor(id) == {e \in cancel_confs : e.venue_id = id}

\* The element reports that the cancel lost the race.
LostRace(i) == i.hasOrdType /\ i.errorField \in {ErrFilled, ErrCanceled}

\* C8: an element reporting the order already Filled (already Canceled) is
\* never the one an error is raised for, and when the call returns the
\* mapping has, under that element's venue id, exactly one entry, with status
\* FILLED (CANCELLED).
C8_LostRaceIsTerminalConfirmation ==
    /\ (coutcome = "raised" /\ cpc = "done" /\ cidx <= Len(cresponse))
          => ~LostRace(cresponse[cidx])
    /\ (cpc = "done" /\ coutcome = "returned" /\ cresult = "dict") =>
          \A k \in 1..Len(cresponse) :
              LostRace(cresponse[k]) =>
                 /\ Cardinality(ConfsFor(cresponse[k].orderID)) = 1
                 /\ \A e \in ConfsFor(cresponse[k].orderID) :
                       e.status = IF cresponse[k].errorField = ErrFilled
                                  THEN "FILLED" ELSE "CANCELLED"

C8_Witness ==
    /\ cpc = "done" /\ coutcome = "returned" /\ cresult = "dict"
    /\ Len(cresponse) = 2
    /\ cresponse[1].errorField = ErrFilled
    /\ cresponse[2].errorField = ErrCanceled
    /\ Cardinality(cancel_confs) = 2

\* The element carries an error string other than the two known messages, or
\* has no error field and a status other than Canceled.
Unhandled(i) ==
    \/ i.errorField \notin {"absent", "null", ErrFilled, ErrCanceled}
    \/ (i.errorField = "absent" /\ i.ordStatus # "Canceled")

\* C9: an element with an unknown error string, or without error field and
\* with a status other than Canceled, is never passed over by the loop, never
\* gets an entry in the mapping, and makes the call end with a raised error.
C9_UnhandledCaseRaises ==
    /\ \A k \in 1..Len(cresponse) :
          Unhandled(cresponse[k]) =>
             /\ ConfsFor(cresponse[k].orderID) = {}
             /\ (cpc = "loop" => cidx <= k)
    /\ (cpc = "done" /\ \E k \in 1..Len(cresponse) : Unhandled(cresponse[k]))
          => /\ coutcome = "raised"
             /\ cerror.kind = "Exception"
             /\ Unhandled(cresponse[cidx])

C9_Witness ==
    /\ cpc = "done" /\ coutcome = "raised"
    /\ cidx = 2 /\ Cardinality(cancel_confs) = 1
    /\ cresponse[2].hasOrdType
    /\ cresponse[2].errorField = "absent" /\ cresponse[2].ordStatus = "New"

(***************************************************************************)
(* Properties of required_timeframes                                       *)
(***************************************************************************)
\* The entries appended by the call.
Appended == SubSeq(timeframes, Len(original) + 1, Len(timeframes))

\* C10 (as claimed): after required_timeframes returns, every appended
\* timeframe occurs once among the appended entries and does not occur in the
\* original list, whichever branch of the rule table derived it.
C10_DerivedAddedAtMostOnce ==
    (tpc = "done" /\ toutcome = "returned") =>
        /\ \A a, b \in 1..Len(Appended) : Appended[a] = Appended[b] => a = b
        /\ \A a \in 1..Len(Appended) : ~InSeq(Appended[a], original)

\* The rule table of the timeframe scheduler, written out for the timeframe
\* strings of the model (<<>>: no trigger can be derived).
tf8H == <<"8", "H">>
tf2D == <<"2", "D">>

RuleTable(timeframe) ==
    CASE timeframe = tf1Min  -> tf3Min
      [] timeframe = tf3Min  -> tf5Min
      [] timeframe = tf5Min  -> tf15Min
      [] timeframe = tf15Min -> tf30Min
      [] timeframe = tf30Min -> tf1H
      [] timeframe = tf1H    -> tf2H
      [] timeframe = tf2H    -> tf4H
      [] timeframe = tf4H    -> tf8H
      [] timeframe = tf12H   -> tf1D
      [] timeframe = tf16H   -> tf1D
      [] timeframe = tf1D    -> tf2D
      [] OTHER               -> <<>>

\* C11: when required_timeframes returns, the trigger the rule table gives
\* for each input entry is in the list, every appended entry is the trigger of
\* some input entry, and ["1Min"] has become ["1Min","3Min"], ["12H","16H"]
\* has become ["12H","16H","1D"] and ["4H"] has become ["4H","8H"].
C11_TriggersFollowRuleTable ==
    (tpc = "done" /\ toutcome = "returned") =>
        /\ \A i \in 1..Len(original) :
              /\ RuleTable(original[i]) # <<>>
              /\ InSeq(RuleTable(original[i]), timeframes)
        /\ \A a \in 1..Len(Appended) :
              \E i \in 1..Len(original) : Appended[a] = RuleTable(original[i])
        /\ original = <<tf1Min>> => timeframes = <<tf1Min, tf3Min>>
        /\ original = <<tf12H, tf16H>> => timeframes = <<tf12H, tf16H, tf1D>>
        /\ original = <<tf4H>> => timeframes = <<tf4H, tf8H>>

C11_Witness ==
    /\ tpc = "done" /\ toutcome = "returned"
    /\ original = <<tf12H, tf16H, tf4H>>
    /\ timeframes = <<tf12H, tf16H, tf4H, tf1D, tf8H>>

\* C16: required_timeframes amends the list it was given: the list is left
\* alone until the derived entries are appended, the original entries remain
\* its prefix, and the appended entries follow the iteration order of the
\* input entries that produced them (each input entry producing at most one).
C16_ExtendedInPlaceInIterationOrder ==
    /\ (tpc = "loop" \/ toutcome = "raised") => timeframes = original
    /\ (tpc = "done" /\ toutcome = "returned") =>
          /\ Len(timeframes) >= Len(original)
          /\ SubSeq(timeframes, 1, Len(original)) = original
          /\ \E p \in [1..Len(Appended) -> 1..Len(original)] :
                /\ \A a, b \in 1..Len(Appended) : a < b => p[a] < p[b]
                /\ \A a \in 1..Len(Appended) :
                      Appended[a] = RuleTable(original[p[a]])

\* Two derived entries that sorting would have swapped.
C16_Witness ==
    /\ tpc = "done" /\ toutcome = "returned"
    /\ original = <<tf4H, tf1Min>>
    /\ timeframes = <<tf4H, tf1Min, tf8H, tf3Min>>

(***************************************************************************)
(* Further properties of cancel_orders                                     *)
(***************************************************************************)
\* C20 (as claimed): when cancel_orders returns the mapping, every element of
\* the venue response has an entry in it, an element whose error field is
\* present but null included.
C20_NoElementSilentlyDropped ==
    (cpc = "done" /\ coutcome = "returned" /\ cresult = "dict") =>
        \A k \in 1..Len(cresponse) : ConfsFor(cresponse[k].orderID) # {}

(***************************************************************************)
(* Properties of format_orders                                             *)
(***************************************************************************)
\* C12: a STOP intent with price P is formatted with stopPx = P after
\* increment rounding, a null price and ImmediateOrCancel; a MARKET intent
\* with a null price, no stopPx and ImmediateOrCancel; LIMIT and STOP_LIMIT
\* keep their (rounded) price with GoodTillCancel; a list holding any other
\* order type raises.
C12_FormatByOrderType ==
    /\ (fpc = "done" /\ \A i \in 1..Len(forders) :
           forders[i].order_type \in {"LIMIT", "MARKET", "STOP_LIMIT", "STOP"})
         => /\ foutcome = "returned"
            /\ Len(formatted) = Len(forders)
    /\ (fpc = "done" /\ \E i \in 1..Len(forders) :
           forders[i].order_type \notin {"LIMIT", "MARKET", "STOP_LIMIT", "STOP"})
         => /\ foutcome = "raised"
            /\ formatted = <<>>
    /\ foutcome = "returned" =>
         \A i \in 1..Len(forders) :
            LET o == forders[i]
                f == formatted[i]
                P == round_increment(o.price, o.symbol)
            IN /\ o.order_type = "STOP" =>
                    /\ f.stopPx = P /\ f.price = NoValue
                    /\ f.timeInForce = "ImmediateOrCancel" /\ f.ordType = "Stop"
               /\ o.order_type = "MARKET" =>
                    /\ f.price = NoValue /\ f.stopPx = NoValue
                    /\ f.timeInForce = "ImmediateOrCancel" /\ f.ordType = "Market"
               /\ o.order_type = "LIMIT" =>
                    /\ f.price = P /\ f.stopPx = NoValue
                    /\ f.timeInForce = "GoodTillCancel" /\ f.ordType = "Limit"
               /\ o.order_type = "STOP_LIMIT" =>
                    /\ f.price = P /\ f.stopPx = NoValue
                    /\ f.timeInForce = "GoodTillCancel" /\ f.ordType = "StopLimit"

\* A STOP order whose price is moved by the rounding, next to a MARKET order.
C12_Witness ==
    /\ fpc = "done" /\ foutcome = "returned" /\ Len(forders) = 2
    /\ forders[1].order_type = "STOP" /\ forders[1].price = 100003
    /\ formatted[1].stopPx = 100005 /\ formatted[1].price = NoValue
    /\ forders[2].order_type = "MARKET" /\ formatted[2].price = NoValue

CanonStatuses == {"FILLED", "CANCELLED", "NEW", "PARTIAL"}

\* The status table of the adapter contract ("none": no canonical status).
Canon(s) ==
    CASE s = "Filled"          -> "FILLED"
      [] s = "Canceled"        -> "CANCELLED"
      [] s = "New"             -> "NEW"
      [] s = "PartiallyFilled" -> "PARTIAL"
      [] OTHER                 -> "none"

\* The rows of a query response that the loop converts (get_orders passes
\* over rows without clOrdID).
Converted(k) == qop = "get_executions" \/ qresponse[k].clOrdID # 0

\* C13: in place_bulk_orders, get_orders and get_executions every record built
\* carries the canonical status of the table for the ordStatus of the venue
\* row it was built from, one of FILLED, CANCELLED, NEW, PARTIAL; and a call
\* that has to convert a row with any other ordStatus ends by raising, never
\* by returning a record for it.
C13_UnknownStatusRaises ==
    /\ \A i \in 1..Len(updated_orders) :
          /\ updated_orders[i].status \in CanonStatuses
          /\ \E c \in 1..Len(order_confirmations) :
                /\ order_confirmations[c].clOrdID = updated_orders[i].order_id
                /\ order_confirmations[c].orderID = updated_orders[i].venue_id
                /\ updated_orders[i].status = Canon(order_confirmations[c].ordStatus)
    /\ (pc = "done"
          /\ \E c \in 1..Len(order_confirmations) :
                /\ order_confirmations[c].clOrdID \in InputIds
                /\ Canon(order_confirmations[c].ordStatus) = "none")
       => (outcome = "raised" /\ updated_orders = <<>>)
    /\ \A i \in 1..Len(qresult) :
          /\ qresult[i].status \in CanonStatuses
          /\ \E k \in 1..Len(qresponse) :
                /\ Converted(k)
                /\ qresponse[k].orderID = qresult[i].venue_id
                /\ qresult[i].status = Canon(qresponse[k].ordStatus)
    /\ (qpc = "done"
          /\ \E k \in 1..Len(qresponse) :
                Converted(k) /\ Canon(qresponse[k].ordStatus) = "none")
       => qoutcome = "raised"
    /\ (qpc = "done" /\ qoutcome = "returned") =>
          Len(qresult) = Cardinality({k \in 1..Len(qresponse) : Converted(k)})

\* get_orders converts a PartiallyFilled row and then raises on an Expired one.
C13_Witness ==
    /\ qpc = "done" /\ qop = "get_orders" /\ qoutcome = "raised"
    /\ qerror.text = "Expired"
    /\ Len(qresult) = 1 /\ qresult[1].status = "PARTIAL"

\* C18 (as claimed): get_orders never fails on the annotation of a row: with
\* every converted row carrying a known ordStatus and ordType, the call
\* returns, whatever the annotations are (missing and null included).
C18_MetatypeNeverRaises ==
    (qpc = "done" /\ qop = "get_orders"
       /\ qerror.kind \notin {"RetryError", "ConnectionError"}
       /\ \A k \in 1..Len(qresponse) :
             Converted(k) =>
                /\ Canon(qresponse[k].ordStatus) # "none"
                /\ qresponse[k].ordType \in {"Limit", "Market", "StopLimit", "Stop"})
    => qoutcome = "returned"

\* The moves of a record's status that venue semantics allow; the first
\* response creates the record with any canonical status.
AllowedMoves ==
    {<<"none", s>> : s \in CanonStatuses}
    \cup {<<"NEW", "PARTIAL">>, <<"NEW", "FILLED">>, <<"PARTIAL", "FILLED">>,
          <<"NEW", "CANCELLED">>, <<"PARTIAL", "CANCELLED">>}

\* C14 (as claimed): over the responses processed for one order_id the
\* recorded status only moves forward (NEW, PARTIAL, FILLED, or NEW/PARTIAL
\* to CANCELLED), and once it is FILLED or CANCELLED no later response
\* changes it.
C14_StatusMovesForwardOnly ==
    [][record_status' # record_status
          => <<record_status, record_status'>> \in AllowedMoves]_vars

(***************************************************************************)
(* Properties of EMACrossTestingOnly.run                                   *)
(***************************************************************************)
Numeric(k) == features[k].fast \in {1, 2} /\ features[k].slow \in {1, 2}

\* Bar k (1-based) closes a short / long cross: slow is above (below) fast at
\* k and was below (above) it at the two bars before k.
ShortCrossAt(k) ==
    /\ k >= 3
    /\ features[k].slow > features[k].fast
    /\ features[k - 1].slow < features[k - 1].fast
    /\ features[k - 2].slow < features[k - 2].fast
LongCrossAt(k) ==
    /\ k >= 3
    /\ features[k].slow < features[k].fast
    /\ features[k - 1].slow > features[k - 1].fast
    /\ features[k - 2].slow > features[k - 2].fast

\* C15 (as claimed): on an operating timeframe, for a window of at least
\* three bars whose features are all numbers and in which no cross was
\* recorded for the first two bars, run returns: LONG if the last bar is a
\* long cross, SHORT if it is a short cross, null otherwise.
C15_AtMostOneSignalReturned ==
    (rpc = "done" /\ timeframe_arg \in {"1Min"} /\ Len(features) >= 3
       /\ (\A k \in 1..Len(features) : Numeric(k))
       /\ (\A j \in 1..Len(longs) : longs[j] >= 3)
       /\ (\A j \in 1..Len(shorts) : shorts[j] >= 3))
    => /\ routcome = "returned"
       /\ signal = IF LongCrossAt(Len(features)) THEN "LONG"
                   ELSE IF ShortCrossAt(Len(features)) THEN "SHORT"
                   ELSE "null"

\* C17 (as claimed): on an operating timeframe, a window whose first or
\* second bar has non-null fast and slow values makes run fail with an error.
C17_ShortLookbackIsFatal ==
    (rpc = "done" /\ timeframe_arg \in {"1Min"}
       /\ \E k \in 1..Len(features) :
             k <= 2 /\ features[k].fast # NoValue /\ features[k].slow # NoValue)
    => routcome = "raised"

(***************************************************************************)
(* Properties of the retrying transport                                    *)
(***************************************************************************)
\* An application-level venue error: a 4xx status or the overload status 503.
ApplicationError(s) == (400 <= s /\ s <= 499) \/ s = 503

\* C19 (as claimed): a request that was answered is sent again only after an
\* answer with status 502, 503 or 504, and at most 5 times; an answer with a
\* 4xx status or with
\* the overload status 503 is never followed by a resend and is always
\* handed to the caller as the response.
C19_ApplicationErrorsNotRetried ==
    /\ Len(attempts) <= 6
    /\ \A k \in 1..Len(attempts) :
          /\ (attempts[k].status_code # NoResponse
                /\ (k < Len(attempts) \/ spc = "sending"))
                => /\ attempts[k].status_code \in {502, 503, 504}
                   /\ ~ApplicationError(attempts[k].status_code)
          /\ (k = Len(attempts) /\ spc = "done"
                /\ ApplicationError(attempts[k].status_code))
                => (soutcome = "response" /\ sresult = attempts[k].status_code)

====
